---- MODULE Spec2Model ----
(***************************************************************************)
(* Teacher <-> campus assignment management of the school administration   *)
(* application: CampusTeacherService over the TeacherCampus join table.    *)
(*                                                                         *)
(* The repository holds two variants of CampusTeacherService:              *)
(*   - src/unnamed/part_004: assign rejects a duplicate with CONFLICT and  *)
(*     clears the teacher's primary flags before inserting a primary row;  *)
(*     setPrimaryCampus performs no authorization check.  Its handlers     *)
(*     carry the plain source names below.                                 *)
(*   - src/src/server/services/CampusTeacherService.ts: assign updates an  *)
(*     existing row in place and never clears other primaries;             *)
(*     setPrimaryCampus authorizes the teacher's own user or a manager.    *)
(*     Its handlers carry the suffix V1.                                   *)
(*                                                                         *)
(* Spec     : part_004 handlers, each call run to completion (sequential). *)
(* SpecV1   : CampusTeacherService.ts handlers, sequential.                *)
(* SpecConc : part_004 handlers split at every await on the database, so   *)
(*            that the storage steps of concurrent calls interleave.       *)
(* SpecTS   : TeacherService (upsertTeacher, updateTeacherStatus) whose    *)
(*            statements run one by one inside db.$transaction, next to a  *)
(*            reader (getTeacherProfile) on the plain connection.          *)
(* SpecForm : the update handler of the teacher form, which drives the     *)
(*            campus mutations one call after the other.                   *)
(***************************************************************************)
EXTENDS Naturals, FiniteSets, Sequences, TLC

VARIABLES
    teacherProfile,  \* table TeacherProfile: set of [id, userId]
    campus,          \* table Campus: set of campus ids
    campusRole,      \* table CampusRole: set of [userId, campusId, permissions]
    teacherCampus,   \* table TeacherCampus: set of [teacherId, campusId, isPrimary, status]
    call,            \* sequential specs: the request served by the last step
    result,          \* sequential specs: its response [code, body]
    proc,            \* SpecConc: per request slot, the position inside the handler
    user,            \* table User: set of [id, status]
    teacherSubject,  \* table TeacherSubject: set of [teacherId, subjectId, status]
    teacherClass,    \* table TeacherClass: set of [teacherId, classId, status]
    tx,              \* SpecTS: the open transaction, its position and its writes
    form             \* SpecForm: the form's submitted values and its position

vars == <<teacherProfile, campus, campusRole, teacherCampus, call, result, proc,
          user, teacherSubject, teacherClass, tx, form>>

\* What the CampusTeacherService handlers never touch.
teacherVars == <<user, teacherSubject, teacherClass, tx>>

(***************************************************************************)
(* Identifiers.  "t0" and "c0" are ids with no TeacherProfile / Campus row *)
(* behind them, so that the NOT_FOUND paths are exercised.                 *)
(***************************************************************************)
ExistingTeachers == {"t1", "t2"}
TeacherIds == ExistingTeachers \cup {"t0"}
ExistingCampuses == {"c1", "c2"}
CampusIds == ExistingCampuses \cup {"c0"}
\* Acting users: "admin" is a super admin (holds every campus permission),
\* "u2" is the user account of teacher t2 and holds a coordinator role on c1
\* only.  So u2 is, depending on the target, the teacher themself with or
\* without the capability, or another actor with or without it.
UserIds == {"admin", "u2"}
SuperAdmins == {"admin"}

\* enum Status.  The handlers only ever compare a status with ACTIVE, so the
\* non-ACTIVE values (INACTIVE, ARCHIVED) behave alike; INACTIVE stands for both.
Status == {"ACTIVE", "INACTIVE"}

MANAGE_CAMPUS_TEACHERS == "MANAGE_CAMPUS_TEACHERS"
VIEW_CAMPUS_CLASSES == "VIEW_CAMPUS_CLASSES"

NoRow == [teacherId |-> "none", campusId |-> "none", isPrimary |-> FALSE, status |-> "none"]
NoCall == [op |-> "none"]
NoResult == [code |-> "none", body |-> NoRow, rows |-> {}]

TeacherCampusRow == [teacherId : ExistingTeachers, campusId : ExistingCampuses,
                     isPrimary : BOOLEAN, status : Status]

(***************************************************************************)
(* Persistence layer primitives (Prisma client calls on one table value).  *)
(***************************************************************************)

\* userService.hasPermission(userId, campusId, permission)
HasPermission(userId, campusId, permission) ==
    \/ userId \in SuperAdmins
    \/ \E r \in campusRole :
          r.userId = userId /\ r.campusId = campusId /\ permission \in r.permissions

\* db.teacherProfile.findUnique({ where: { id } }) !== null
TeacherExists(teacherId) == \E p \in teacherProfile : p.id = teacherId

\* db.campus.findUnique({ where: { id } }) !== null
CampusExists(campusId) == campusId \in campus

\* db.teacherCampus.findUnique({ where: { teacherId_campusId } })
FindUnique(tc, teacherId, campusId) ==
    IF \E r \in tc : r.teacherId = teacherId /\ r.campusId = campusId
    THEN CHOOSE r \in tc : r.teacherId = teacherId /\ r.campusId = campusId
    ELSE NoRow

\* Variant of UnsetPrimary whose where clause also names status: ACTIVE.
UnsetPrimaryActiveOnly(tc, teacherId) ==
    { IF r.teacherId = teacherId /\ r.isPrimary /\ r.status = "ACTIVE"
      THEN [r EXCEPT !.isPrimary = FALSE] ELSE r : r \in tc }

\* db.teacherCampus.updateMany({ where: { teacherId, isPrimary: true },
\*                               data: { isPrimary: false } })
UnsetPrimary(tc, teacherId) ==
    { IF r.teacherId = teacherId /\ r.isPrimary
      THEN [r EXCEPT !.isPrimary = FALSE] ELSE r : r \in tc }

\* Variant of NewAssignment that stores isPrimary: false whatever was asked.
NewAssignmentNonPrimary(teacherId, campusId, isPrimary) ==
    [teacherId |-> teacherId, campusId |-> campusId,
     isPrimary |-> FALSE, status |-> "ACTIVE"]

\* The row db.teacherCampus.create({ data: {teacherId, campusId, isPrimary,
\* status: ACTIVE} }) inserts.
NewAssignment(teacherId, campusId, isPrimary) ==
    [teacherId |-> teacherId, campusId |-> campusId,
     isPrimary |-> isPrimary, status |-> "ACTIVE"]

\* Variant of CreateAccepted for a table without @@unique([teacherId, campusId]).
CreateAcceptedNoUnique(tc, teacherId, campusId) ==
    /\ TeacherExists(teacherId)
    /\ CampusExists(campusId)

\* @@unique([teacherId, campusId]) and the two foreign keys of TeacherCampus:
\* whether the database accepts the insert.
CreateAccepted(tc, teacherId, campusId) ==
    /\ FindUnique(tc, teacherId, campusId) = NoRow
    /\ TeacherExists(teacherId)
    /\ CampusExists(campusId)

\* db.teacherCampus.update({ where: { teacherId_campusId }, data: { isPrimary: true } })
MarkPrimary(tc, teacherId, campusId) ==
    { IF r.teacherId = teacherId /\ r.campusId = campusId
      THEN [r EXCEPT !.isPrimary = TRUE] ELSE r : r \in tc }

\* Variant of WriteStatus that flips the status when the row already has the
\* requested one.
WriteStatusToggle(tc, teacherId, campusId, status) ==
    { IF r.teacherId = teacherId /\ r.campusId = campusId
      THEN [r EXCEPT !.status = IF r.status # status THEN status
                                ELSE CHOOSE s \in Status : s # status]
      ELSE r : r \in tc }

\* Variant of WriteStatus that also drops the primary flag when the new status
\* is not ACTIVE.
WriteStatusDemote(tc, teacherId, campusId, status) ==
    { IF r.teacherId = teacherId /\ r.campusId = campusId
      THEN [r EXCEPT !.status = status,
                     !.isPrimary = r.isPrimary /\ status = "ACTIVE"]
      ELSE r : r \in tc }

\* db.teacherCampus.update({ where: { teacherId_campusId }, data: { status } })
WriteStatus(tc, teacherId, campusId, status) ==
    { IF r.teacherId = teacherId /\ r.campusId = campusId
      THEN [r EXCEPT !.status = status] ELSE r : r \in tc }

\* Variant of DeleteRow that, when the deleted assignment was primary, marks
\* the teacher's remaining assignments primary.
DeleteRowPromote(tc, teacherId, campusId) ==
    { IF r.teacherId = teacherId /\ FindUnique(tc, teacherId, campusId).isPrimary
      THEN [r EXCEPT !.isPrimary = TRUE] ELSE r
      : r \in { q \in tc : ~(q.teacherId = teacherId /\ q.campusId = campusId) } }

\* db.teacherCampus.delete({ where: { teacherId_campusId } })
DeleteRow(tc, teacherId, campusId) ==
    { r \in tc : ~(r.teacherId = teacherId /\ r.campusId = campusId) }

\* What a handler leaves behind: the code it ends with (OK or the TRPCError
\* code), the table, the row it returns (body) or the list it returns (rows).
Outcome(code, tc, body) == [code |-> code, table |-> tc, body |-> body, rows |-> {}]

ListOutcome(code, tc, rows) == [code |-> code, table |-> tc, body |-> NoRow, rows |-> rows]

(***************************************************************************)
(* part_004 handlers, run to completion.                                   *)
(***************************************************************************)

\* Variant of AssignOutcome that looks for an existing assignment first and
\* tests the permission last.
AssignOutcomeLookupFirst(tc, userId, campusId, teacherId, isPrimary) ==
    IF FindUnique(tc, teacherId, campusId) # NoRow
    THEN Outcome("CONFLICT", tc, NoRow)
    ELSE IF ~TeacherExists(teacherId) THEN Outcome("NOT_FOUND", tc, NoRow)
    ELSE IF ~CampusExists(campusId) THEN Outcome("NOT_FOUND", tc, NoRow)
    ELSE IF ~HasPermission(userId, campusId, MANAGE_CAMPUS_TEACHERS)
    THEN Outcome("FORBIDDEN", tc, NoRow)
    ELSE LET cleared == IF isPrimary THEN UnsetPrimary(tc, teacherId) ELSE tc
         IN  IF CreateAccepted(cleared, teacherId, campusId)
             THEN Outcome("OK",
                          cleared \cup {NewAssignment(teacherId, campusId, isPrimary)},
                          NewAssignment(teacherId, campusId, isPrimary))
             ELSE Outcome("INTERNAL_SERVER_ERROR", cleared, NoRow)

\* Variant of AssignOutcome without the updateMany that unsets the teacher's
\* primaries before a primary row is inserted.
AssignOutcomeNoClear(tc, userId, campusId, teacherId, isPrimary) ==
    IF ~HasPermission(userId, campusId, MANAGE_CAMPUS_TEACHERS)
    THEN Outcome("FORBIDDEN", tc, NoRow)
    ELSE IF ~TeacherExists(teacherId) THEN Outcome("NOT_FOUND", tc, NoRow)
    ELSE IF ~CampusExists(campusId) THEN Outcome("NOT_FOUND", tc, NoRow)
    ELSE IF FindUnique(tc, teacherId, campusId) # NoRow
    THEN Outcome("CONFLICT", tc, NoRow)
    ELSE IF CreateAccepted(tc, teacherId, campusId)
    THEN Outcome("OK", tc \cup {NewAssignment(teacherId, campusId, isPrimary)},
                 NewAssignment(teacherId, campusId, isPrimary))
    ELSE Outcome("INTERNAL_SERVER_ERROR", tc, NoRow)

\* CampusTeacherService.assignTeacherToCampus (part_004)
AssignOutcome(tc, userId, campusId, teacherId, isPrimary) ==
    IF ~HasPermission(userId, campusId, MANAGE_CAMPUS_TEACHERS)
    THEN Outcome("FORBIDDEN", tc, NoRow)
    ELSE IF ~TeacherExists(teacherId) THEN Outcome("NOT_FOUND", tc, NoRow)
    ELSE IF ~CampusExists(campusId) THEN Outcome("NOT_FOUND", tc, NoRow)
    ELSE IF FindUnique(tc, teacherId, campusId) # NoRow
    THEN Outcome("CONFLICT", tc, NoRow)
    ELSE LET cleared == IF isPrimary THEN UnsetPrimary(tc, teacherId) ELSE tc
         IN  IF CreateAccepted(cleared, teacherId, campusId)
             THEN Outcome("OK",
                          cleared \cup {NewAssignment(teacherId, campusId, isPrimary)},
                          NewAssignment(teacherId, campusId, isPrimary))
             ELSE Outcome("INTERNAL_SERVER_ERROR", cleared, NoRow)

\* Variant of RemoveOutcome that tests the permission only after the delete.
RemoveOutcomeLateCheck(tc, userId, campusId, teacherId) ==
    IF FindUnique(tc, teacherId, campusId) = NoRow
    THEN Outcome("NOT_FOUND", tc, NoRow)
    ELSE IF ~HasPermission(userId, campusId, MANAGE_CAMPUS_TEACHERS)
    THEN Outcome("FORBIDDEN", DeleteRow(tc, teacherId, campusId), NoRow)
    ELSE Outcome("OK", DeleteRow(tc, teacherId, campusId), NoRow)

\* CampusTeacherService.removeTeacherFromCampus (part_004)
RemoveOutcome(tc, userId, campusId, teacherId) ==
    IF ~HasPermission(userId, campusId, MANAGE_CAMPUS_TEACHERS)
    THEN Outcome("FORBIDDEN", tc, NoRow)
    ELSE IF FindUnique(tc, teacherId, campusId) = NoRow
    THEN Outcome("NOT_FOUND", tc, NoRow)
    ELSE Outcome("OK", DeleteRow(tc, teacherId, campusId), NoRow)

\* CampusTeacherService.updateTeacherCampusStatus (part_004)
UpdateStatusOutcome(tc, userId, campusId, teacherId, status) ==
    IF ~HasPermission(userId, campusId, MANAGE_CAMPUS_TEACHERS)
    THEN Outcome("FORBIDDEN", tc, NoRow)
    ELSE IF FindUnique(tc, teacherId, campusId) = NoRow
    THEN Outcome("NOT_FOUND", tc, NoRow)
    ELSE LET written == WriteStatus(tc, teacherId, campusId, status)
         IN  Outcome("OK", written, FindUnique(written, teacherId, campusId))

\* Variant of SetPrimaryOutcome that unsets the teacher's primaries before it
\* looks the assignment up.
SetPrimaryOutcomeClearFirst(tc, userId, teacherId, campusId) ==
    IF FindUnique(tc, teacherId, campusId) = NoRow
    THEN Outcome("NOT_FOUND", UnsetPrimary(tc, teacherId), NoRow)
    ELSE LET written == MarkPrimary(UnsetPrimary(tc, teacherId), teacherId, campusId)
         IN  Outcome("OK", written, FindUnique(written, teacherId, campusId))

\* CampusTeacherService.setPrimaryCampus (part_004): userId is never read.
SetPrimaryOutcome(tc, userId, teacherId, campusId) ==
    IF FindUnique(tc, teacherId, campusId) = NoRow
    THEN Outcome("NOT_FOUND", tc, NoRow)
    ELSE LET written == MarkPrimary(UnsetPrimary(tc, teacherId), teacherId, campusId)
         IN  Outcome("OK", written, FindUnique(written, teacherId, campusId))

\* Variant of FindManyForCampus with the includeInactive test inverted.
FindManyForCampusInverted(tc, campusId, includeInactive) ==
    {r \in tc : r.campusId = campusId /\ (~includeInactive \/ r.status = "ACTIVE")}

\* db.teacherCampus.findMany({ where: { campusId,
\*     status: includeInactive ? undefined : Status.ACTIVE } })
FindManyForCampus(tc, campusId, includeInactive) ==
    {r \in tc : r.campusId = campusId /\ (includeInactive \/ r.status = "ACTIVE")}

\* db.teacherCampus.findMany({ where: { teacherId,
\*     status: includeInactive ? undefined : Status.ACTIVE } })
FindManyForTeacher(tc, teacherId, includeInactive) ==
    {r \in tc : r.teacherId = teacherId /\ (includeInactive \/ r.status = "ACTIVE")}

\* The TeacherWithClasses element built from a TeacherCampus row (the fields
\* taken from the row itself).
TeacherWithClasses(r) ==
    [id |-> r.teacherId, status |-> r.status, isPrimary |-> r.isPrimary]

\* The CampusWithAssignment element built from a TeacherCampus row.
CampusWithAssignment(r) ==
    [campusId |-> r.campusId, status |-> r.status, isPrimary |-> r.isPrimary]

\* CampusTeacherService.getTeachersForCampus (part_004)
TeachersForCampusOutcome(tc, userId, campusId, includeInactive) ==
    IF ~HasPermission(userId, campusId, VIEW_CAMPUS_CLASSES)
    THEN ListOutcome("FORBIDDEN", tc, {})
    ELSE IF ~CampusExists(campusId) THEN ListOutcome("NOT_FOUND", tc, {})
    ELSE ListOutcome("OK", tc,
                 {TeacherWithClasses(r) : r \in FindManyForCampus(tc, campusId, includeInactive)})

\* CampusTeacherService.getCampusesForTeacher (part_004): userId is never read.
CampusesForTeacherOutcome(tc, userId, teacherId, includeInactive) ==
    IF ~TeacherExists(teacherId) THEN ListOutcome("NOT_FOUND", tc, {})
    ELSE ListOutcome("OK", tc,
                 {CampusWithAssignment(r) : r \in FindManyForTeacher(tc, teacherId, includeInactive)})

Serve(request, o) ==
    /\ teacherCampus' = o.table
    /\ call' = request
    /\ result' = [code |-> o.code, body |-> o.body, rows |-> o.rows]
    /\ UNCHANGED <<teacherProfile, campus, campusRole, proc, teacherVars, form>>

assignTeacherToCampus ==
    \E u \in UserIds, c \in CampusIds, t \in TeacherIds, p \in BOOLEAN :
        Serve([op |-> "assign", userId |-> u, campusId |-> c, teacherId |-> t,
               isPrimary |-> p],
              AssignOutcome(teacherCampus, u, c, t, p))

removeTeacherFromCampus ==
    \E u \in UserIds, c \in CampusIds, t \in TeacherIds :
        Serve([op |-> "remove", userId |-> u, campusId |-> c, teacherId |-> t],
              RemoveOutcome(teacherCampus, u, c, t))

updateTeacherCampusStatus ==
    \E u \in UserIds, c \in CampusIds, t \in TeacherIds, s \in Status :
        Serve([op |-> "updateStatus", userId |-> u, campusId |-> c, teacherId |-> t,
               status |-> s],
              UpdateStatusOutcome(teacherCampus, u, c, t, s))

setPrimaryCampus ==
    \E u \in UserIds, c \in CampusIds, t \in TeacherIds :
        Serve([op |-> "setPrimary", userId |-> u, campusId |-> c, teacherId |-> t],
              SetPrimaryOutcome(teacherCampus, u, t, c))

getTeachersForCampus ==
    \E u \in UserIds, c \in CampusIds, a \in BOOLEAN :
        Serve([op |-> "listForCampus", userId |-> u, campusId |-> c, includeInactive |-> a],
              TeachersForCampusOutcome(teacherCampus, u, c, a))

getCampusesForTeacher ==
    \E u \in UserIds, t \in TeacherIds, a \in BOOLEAN :
        Serve([op |-> "listForTeacher", userId |-> u, teacherId |-> t, includeInactive |-> a],
              CampusesForTeacherOutcome(teacherCampus, u, t, a))

(***************************************************************************)
(* CampusTeacherService.ts handlers (suffix V1), run to completion.        *)
(***************************************************************************)

\* db.teacherCampus.update({ where: { id }, data: { isPrimary, status: 'ACTIVE' } })
OverwriteAssignment(tc, teacherId, campusId, isPrimary) ==
    { IF r.teacherId = teacherId /\ r.campusId = campusId
      THEN [r EXCEPT !.isPrimary = isPrimary, !.status = "ACTIVE"] ELSE r : r \in tc }

\* db.teacherCampus.updateMany({ where: { teacherId }, data: { isPrimary: false } })
UnsetAllPrimary(tc, teacherId) ==
    { IF r.teacherId = teacherId THEN [r EXCEPT !.isPrimary = FALSE] ELSE r : r \in tc }

\* db.teacherProfile.findUnique({ where: { id } }).userId
ProfileUserId(teacherId) == (CHOOSE p \in teacherProfile : p.id = teacherId).userId

\* CampusTeacherService.assignTeacherToCampus (CampusTeacherService.ts): no
\* existence checks and no try/catch; a rejected insert surfaces as the raw
\* Prisma error.
AssignOutcomeV1(tc, userId, campusId, teacherId, isPrimary) ==
    IF ~HasPermission(userId, campusId, MANAGE_CAMPUS_TEACHERS)
    THEN Outcome("FORBIDDEN", tc, NoRow)
    ELSE IF FindUnique(tc, teacherId, campusId) # NoRow
    THEN LET written == OverwriteAssignment(tc, teacherId, campusId, isPrimary)
         IN  Outcome("OK", written, FindUnique(written, teacherId, campusId))
    ELSE IF CreateAccepted(tc, teacherId, campusId)
    THEN Outcome("OK", tc \cup {NewAssignment(teacherId, campusId, isPrimary)},
                 NewAssignment(teacherId, campusId, isPrimary))
    ELSE Outcome("PRISMA_ERROR", tc, NoRow)

\* CampusTeacherService.removeTeacherFromCampus (CampusTeacherService.ts)
RemoveOutcomeV1(tc, userId, campusId, teacherId) ==
    IF ~HasPermission(userId, campusId, MANAGE_CAMPUS_TEACHERS)
    THEN Outcome("FORBIDDEN", tc, NoRow)
    ELSE IF FindUnique(tc, teacherId, campusId) = NoRow
    THEN Outcome("NOT_FOUND", tc, NoRow)
    ELSE Outcome("OK", DeleteRow(tc, teacherId, campusId), NoRow)

\* CampusTeacherService.updateTeacherCampusStatus (CampusTeacherService.ts)
UpdateStatusOutcomeV1(tc, userId, campusId, teacherId, status) ==
    IF ~HasPermission(userId, campusId, MANAGE_CAMPUS_TEACHERS)
    THEN Outcome("FORBIDDEN", tc, NoRow)
    ELSE IF FindUnique(tc, teacherId, campusId) = NoRow
    THEN Outcome("NOT_FOUND", tc, NoRow)
    ELSE LET written == WriteStatus(tc, teacherId, campusId, status)
         IN  Outcome("OK", written, FindUnique(written, teacherId, campusId))

\* The authorization of setPrimaryCampus (CampusTeacherService.ts): the
\* teacher's own user, or a holder of MANAGE_CAMPUS_TEACHERS on the campus.
SetPrimaryAuthorizedV1(userId, teacherId, campusId) ==
    \/ userId = ProfileUserId(teacherId)
    \/ HasPermission(userId, campusId, MANAGE_CAMPUS_TEACHERS)

\* CampusTeacherService.setPrimaryCampus (CampusTeacherService.ts)
SetPrimaryOutcomeV1(tc, userId, teacherId, campusId) ==
    IF ~TeacherExists(teacherId) THEN Outcome("NOT_FOUND", tc, NoRow)
    ELSE IF ~SetPrimaryAuthorizedV1(userId, teacherId, campusId)
    THEN Outcome("FORBIDDEN", tc, NoRow)
    ELSE IF FindUnique(tc, teacherId, campusId) = NoRow
    THEN Outcome("NOT_FOUND", tc, NoRow)
    ELSE LET written == MarkPrimary(UnsetAllPrimary(tc, teacherId), teacherId, campusId)
         IN  Outcome("OK", written, FindUnique(written, teacherId, campusId))

\* CampusTeacherService.getTeachersForCampus (CampusTeacherService.ts): the
\* teacher users having an assignment to the campus that passes the status
\* filter, each with its assignment to that campus.
TeachersForCampusOutcomeV1(tc, userId, campusId, includeInactive) ==
    IF ~HasPermission(userId, campusId, VIEW_CAMPUS_CLASSES)
    THEN ListOutcome("FORBIDDEN", tc, {})
    ELSE ListOutcome("OK", tc,
                 {TeacherWithClasses(r) : r \in FindManyForCampus(tc, campusId, includeInactive)})

\* db.campusRole.findMany({ where: { userId, permissions: { has: VIEW_CAMPUS_CLASSES } },
\*                          select: { campusId } })
UserCampuses(userId) ==
    {r.campusId : r \in {x \in campusRole :
                            x.userId = userId /\ VIEW_CAMPUS_CLASSES \in x.permissions}}

\* CampusTeacherService.getCampusesForTeacher (CampusTeacherService.ts)
CampusesForTeacherOutcomeV1(tc, userId, teacherId, includeInactive) ==
    IF ~TeacherExists(teacherId) THEN ListOutcome("NOT_FOUND", tc, {})
    ELSE IF userId = ProfileUserId(teacherId)
    THEN ListOutcome("OK", tc,
                 {CampusWithAssignment(r) : r \in FindManyForTeacher(tc, teacherId, includeInactive)})
    ELSE IF UserCampuses(userId) = {} THEN ListOutcome("FORBIDDEN", tc, {})
    ELSE ListOutcome("OK", tc,
                 {CampusWithAssignment(r) :
                      r \in {x \in FindManyForTeacher(tc, teacherId, includeInactive) :
                                x.campusId \in UserCampuses(userId)}})

getTeachersForCampusV1 ==
    \E u \in UserIds, c \in CampusIds, a \in BOOLEAN :
        Serve([op |-> "listForCampus", userId |-> u, campusId |-> c, includeInactive |-> a],
              TeachersForCampusOutcomeV1(teacherCampus, u, c, a))

getCampusesForTeacherV1 ==
    \E u \in UserIds, t \in TeacherIds, a \in BOOLEAN :
        Serve([op |-> "listForTeacher", userId |-> u, teacherId |-> t, includeInactive |-> a],
              CampusesForTeacherOutcomeV1(teacherCampus, u, t, a))

assignTeacherToCampusV1 ==
    \E u \in UserIds, c \in CampusIds, t \in TeacherIds, p \in BOOLEAN :
        Serve([op |-> "assign", userId |-> u, campusId |-> c, teacherId |-> t,
               isPrimary |-> p],
              AssignOutcomeV1(teacherCampus, u, c, t, p))

removeTeacherFromCampusV1 ==
    \E u \in UserIds, c \in CampusIds, t \in TeacherIds :
        Serve([op |-> "remove", userId |-> u, campusId |-> c, teacherId |-> t],
              RemoveOutcomeV1(teacherCampus, u, c, t))

updateTeacherCampusStatusV1 ==
    \E u \in UserIds, c \in CampusIds, t \in TeacherIds, s \in Status :
        Serve([op |-> "updateStatus", userId |-> u, campusId |-> c, teacherId |-> t,
               status |-> s],
              UpdateStatusOutcomeV1(teacherCampus, u, c, t, s))

setPrimaryCampusV1 ==
    \E u \in UserIds, c \in CampusIds, t \in TeacherIds :
        Serve([op |-> "setPrimary", userId |-> u, campusId |-> c, teacherId |-> t],
              SetPrimaryOutcomeV1(teacherCampus, u, t, c))

(***************************************************************************)
(* part_004 handlers split at the awaits that touch TeacherCampus, for     *)
(* concurrent requests.  No handler opens a transaction (there is no       *)
(* db.$transaction in CampusTeacherService), so every Prisma call is its   *)
(* own atomic statement and the statements of different requests           *)
(* interleave.  The checks that precede the first TeacherCampus access     *)
(* read only tables that no handler writes, so they are folded into the    *)
(* step of that first access.                                              *)
(***************************************************************************)
NProcs == 2
Procs == 1 .. NProcs

\* Concurrent requests all concern one teacher and are issued by the admin.
ConcTeacher == "t1"
ConcUser == "admin"

IdleProc ==
    [pc |-> "idle", op |-> "none", campusId |-> "none", isPrimary |-> FALSE,
     status |-> "none", code |-> "none", body |-> {}, hadPrimary |-> FALSE,
     before |-> {}]

\* The assignments of one teacher.
RowsOf(tc, teacherId) == {r \in tc : r.teacherId = teacherId}

HasPrimary(tc, teacherId) == \E r \in tc : r.teacherId = teacherId /\ r.isPrimary

Step(i, p) ==
    /\ proc' = [proc EXCEPT ![i] = p]
    /\ UNCHANGED <<teacherProfile, campus, campusRole, call, result, teacherVars, form>>

Finish(p, code) == [p EXCEPT !.pc = "done", !.code = code]

\* assignTeacherToCampus, lines 73-127: the checks up to findUnique.  The
\* field before keeps the teacher's assignments as they were when the call
\* began (an observation, read by no handler).
BeginAssign(i) ==
    /\ proc[i].pc = "idle"
    /\ \E c \in CampusIds, p \in BOOLEAN :
         LET me == [IdleProc EXCEPT !.op = "assign", !.campusId = c, !.isPrimary = p,
                                    !.before = RowsOf(teacherCampus, ConcTeacher)]
         IN  Step(i,
                  IF ~HasPermission(ConcUser, c, MANAGE_CAMPUS_TEACHERS)
                  THEN Finish(me, "FORBIDDEN")
                  ELSE IF ~TeacherExists(ConcTeacher) \/ ~CampusExists(c)
                  THEN Finish(me, "NOT_FOUND")
                  ELSE IF FindUnique(teacherCampus, ConcTeacher, c) # NoRow
                  THEN Finish(me, "CONFLICT")
                  ELSE [me EXCEPT !.pc = IF p THEN "unset" ELSE "create"])
    /\ UNCHANGED teacherCampus

\* assignTeacherToCampus, lines 129-140: updateMany clearing the primaries.
AssignUnsetPrimary(i) ==
    /\ proc[i].op = "assign" /\ proc[i].pc = "unset"
    /\ teacherCampus' = UnsetPrimary(teacherCampus, ConcTeacher)
    /\ Step(i, [proc[i] EXCEPT !.pc = "create"])

\* assignTeacherToCampus, lines 142-159 and the catch of 183-190: the insert
\* succeeds, or the database rejects it (unique constraint, foreign key) and
\* the error is rethrown as INTERNAL_SERVER_ERROR.
AssignCreate(i) ==
    /\ proc[i].op = "assign" /\ proc[i].pc = "create"
    /\ IF CreateAccepted(teacherCampus, ConcTeacher, proc[i].campusId)
       THEN /\ teacherCampus' = teacherCampus \cup
                  {NewAssignment(ConcTeacher, proc[i].campusId, proc[i].isPrimary)}
            /\ Step(i, Finish(proc[i], "OK"))
       ELSE /\ UNCHANGED teacherCampus
            /\ Step(i, Finish(proc[i], "INTERNAL_SERVER_ERROR"))

\* assignTeacherToCampus, lines 142-159 and 183-190: the create call fails for
\* a reason of the storage layer (connection lost, timeout); nothing undoes
\* the updateMany that already ran.
AssignCreateFails(i) ==
    /\ proc[i].op = "assign" /\ proc[i].pc = "create"
    /\ UNCHANGED teacherCampus
    /\ Step(i, Finish(proc[i], "INTERNAL_SERVER_ERROR"))

\* setPrimaryCampus, lines 465-480: findUnique.
BeginSetPrimary(i) ==
    /\ proc[i].pc = "idle"
    /\ \E c \in CampusIds :
         LET me == [IdleProc EXCEPT !.op = "setPrimary", !.campusId = c,
                                    !.hadPrimary = HasPrimary(teacherCampus, ConcTeacher)]
         IN  Step(i,
                  IF FindUnique(teacherCampus, ConcTeacher, c) = NoRow
                  THEN Finish(me, "NOT_FOUND")
                  ELSE [me EXCEPT !.pc = "unset"])
    /\ UNCHANGED teacherCampus

\* setPrimaryCampus, lines 482-491: updateMany clearing the primaries.
SetPrimaryUnsetPrimary(i) ==
    /\ proc[i].op = "setPrimary" /\ proc[i].pc = "unset"
    /\ teacherCampus' = UnsetPrimary(teacherCampus, ConcTeacher)
    /\ Step(i, [proc[i] EXCEPT !.pc = "update"])

\* setPrimaryCampus, lines 493-512 and 536-543: update of the target row; when
\* the row has been deleted meanwhile Prisma throws and the catch rethrows.
SetPrimaryUpdate(i) ==
    /\ proc[i].op = "setPrimary" /\ proc[i].pc = "update"
    /\ IF FindUnique(teacherCampus, ConcTeacher, proc[i].campusId) # NoRow
       THEN /\ teacherCampus' = MarkPrimary(teacherCampus, ConcTeacher, proc[i].campusId)
            /\ Step(i, Finish(proc[i], "OK"))
       ELSE /\ UNCHANGED teacherCampus
            /\ Step(i, Finish(proc[i], "INTERNAL_SERVER_ERROR"))

\* removeTeacherFromCampus, lines 198-227: permission check and findUnique.
BeginRemove(i) ==
    /\ proc[i].pc = "idle"
    /\ \E c \in CampusIds :
         LET me == [IdleProc EXCEPT !.op = "remove", !.campusId = c]
         IN  Step(i,
                  IF ~HasPermission(ConcUser, c, MANAGE_CAMPUS_TEACHERS)
                  THEN Finish(me, "FORBIDDEN")
                  ELSE IF FindUnique(teacherCampus, ConcTeacher, c) = NoRow
                  THEN Finish(me, "NOT_FOUND")
                  ELSE [me EXCEPT !.pc = "delete"])
    /\ UNCHANGED teacherCampus

\* removeTeacherFromCampus, lines 229-239: delete; a row already gone makes
\* Prisma throw, and this handler has no catch.
RemoveDelete(i) ==
    /\ proc[i].op = "remove" /\ proc[i].pc = "delete"
    /\ IF FindUnique(teacherCampus, ConcTeacher, proc[i].campusId) # NoRow
       THEN /\ teacherCampus' = DeleteRow(teacherCampus, ConcTeacher, proc[i].campusId)
            /\ Step(i, Finish(proc[i], "OK"))
       ELSE /\ UNCHANGED teacherCampus
            /\ Step(i, Finish(proc[i], "PRISMA_ERROR"))

\* updateTeacherCampusStatus, lines 382-411: permission check and findUnique.
BeginUpdateStatus(i) ==
    /\ proc[i].pc = "idle"
    /\ \E c \in CampusIds, s \in Status :
         LET me == [IdleProc EXCEPT !.op = "updateStatus", !.campusId = c, !.status = s]
         IN  Step(i,
                  IF ~HasPermission(ConcUser, c, MANAGE_CAMPUS_TEACHERS)
                  THEN Finish(me, "FORBIDDEN")
                  ELSE IF FindUnique(teacherCampus, ConcTeacher, c) = NoRow
                  THEN Finish(me, "NOT_FOUND")
                  ELSE [me EXCEPT !.pc = "update"])
    /\ UNCHANGED teacherCampus

\* updateTeacherCampusStatus, lines 413-433: update of the status.
UpdateStatusUpdate(i) ==
    /\ proc[i].op = "updateStatus" /\ proc[i].pc = "update"
    /\ IF FindUnique(teacherCampus, ConcTeacher, proc[i].campusId) # NoRow
       THEN /\ teacherCampus' = WriteStatus(teacherCampus, ConcTeacher,
                                            proc[i].campusId, proc[i].status)
            /\ Step(i, Finish(proc[i], "OK"))
       ELSE /\ UNCHANGED teacherCampus
            /\ Step(i, Finish(proc[i], "PRISMA_ERROR"))

\* A setPrimaryCampus call for the teacher, begun while the teacher had a
\* primary campus, has not returned yet.
SetPrimaryInFlight ==
    \E j \in Procs : /\ proc[j].op = "setPrimary"
                     /\ proc[j].pc \in {"unset", "update"}
                     /\ proc[j].hadPrimary

\* getCampusesForTeacher, lines 337-374, includeInactive = true: one findMany,
\* which reads the table as it is at that moment.  hadPrimary records whether
\* the read fell inside a setPrimaryCampus call.
ListCampusesForTeacher(i) ==
    /\ proc[i].pc = "idle"
    /\ Step(i, [IdleProc EXCEPT !.pc = "done", !.op = "list", !.code = "OK",
                                !.body = RowsOf(teacherCampus, ConcTeacher),
                                !.hadPrimary = SetPrimaryInFlight])
    /\ UNCHANGED teacherCampus

\* The response has been delivered; the slot serves the next request.
Return(i) ==
    /\ proc[i].pc = "done"
    /\ Step(i, IdleProc)
    /\ UNCHANGED teacherCampus

(***************************************************************************)
(* TeacherService (src/src/server/services/TeacherService.ts).  Both       *)
(* mutations run their statements on the transaction client tx inside      *)
(* db.$transaction: the statements below work on the transaction's own     *)
(* view of the tables (work), which becomes the tables at commit and is    *)
(* discarded when the callback throws.                                     *)
(***************************************************************************)

\* The user and the profile id the teacher-level requests are about: "u3" has
\* no TeacherProfile at first, and "t3" is the id the first upsert gives it.
TSUser == "u3"
TSTeacher == "t3"

SubjectIds == {"s1"}
ClassIds == {"k1"}

\* The longest assignments list a request carries.
MaxAssignments == 2

\* teacherAssignmentSchema: one entry of the assignments list.  Entries naming
\* "c0" refer to no Campus row.
AssignmentInput ==
    [campusId : ExistingCampuses, isPrimary : BOOLEAN, status : Status]
        \cup {[campusId |-> "c0", isPrimary |-> FALSE, status |-> "ACTIVE"]}

RECURSIVE ListsUpTo(_, _)
ListsUpTo(S, n) ==
    IF n = 0 THEN {<<>>}
    ELSE ListsUpTo(S, n - 1)
           \cup {Append(l, x) : l \in {m \in ListsUpTo(S, n - 1) : Len(m) = n - 1}, x \in S}

AssignmentLists == ListsUpTo(AssignmentInput, MaxAssignments)

CampusIdsOf(assignments) == {assignments[i].campusId : i \in 1 .. Len(assignments)}

\* The tables as one value.
Db ==
    [teacherProfile |-> teacherProfile, teacherCampus |-> teacherCampus,
     teacherSubject |-> teacherSubject, teacherClass |-> teacherClass, user |-> user]

NoDb ==
    [teacherProfile |-> {}, teacherCampus |-> {}, teacherSubject |-> {},
     teacherClass |-> {}, user |-> {}]

Publish(d) ==
    /\ teacherProfile' = d.teacherProfile
    /\ teacherCampus' = d.teacherCampus
    /\ teacherSubject' = d.teacherSubject
    /\ teacherClass' = d.teacherClass
    /\ user' = d.user

\* Variant of TxWrite for statements issued on this.db instead of tx: each
\* write reaches the tables at once.
TxWriteThrough(committed, work) == work

\* db.$transaction(async (tx) => ...): what the tables hold while the
\* transaction is open and has written work.
TxWrite(committed, work) == committed

IdleTx ==
    [pc |-> "idle", op |-> "none", userId |-> "none", teacherId |-> "none",
     assignments |-> <<>>, subjects |-> {}, classes |-> {}, status |-> "none",
     todo |-> <<>>, work |-> NoDb, before |-> NoDb]

\* tx.teacherProfile.upsert({ where: { userId }, create: {...}, update: {...} })
UpsertProfile(w, userId) ==
    IF \E p \in w.teacherProfile : p.userId = userId
    THEN w
    ELSE [w EXCEPT !.teacherProfile = @ \cup {[id |-> TSTeacher, userId |-> userId]}]

\* profile.id of the row the upsert returned
ProfileIdOf(w, userId) == (CHOOSE p \in w.teacherProfile : p.userId = userId).id

\* Variant of DeleteManyNotIn that deletes nothing.
DeleteManyNothing(w, teacherId, campusIds) == w

\* tx.teacherCampus.deleteMany({ where: { teacherId, campusId: { notIn } } })
DeleteManyNotIn(w, teacherId, campusIds) ==
    [w EXCEPT !.teacherCampus =
        {r \in @ : ~(r.teacherId = teacherId /\ r.campusId \notin campusIds)}]

\* Variant of UpsertAssignment whose update branch leaves isPrimary as stored.
UpsertAssignmentKeepPrimary(w, teacherId, a) ==
    [w EXCEPT !.teacherCampus =
        IF \E r \in @ : r.teacherId = teacherId /\ r.campusId = a.campusId
        THEN { IF r.teacherId = teacherId /\ r.campusId = a.campusId
               THEN [r EXCEPT !.status = a.status]
               ELSE r : r \in @ }
        ELSE @ \cup {[teacherId |-> teacherId, campusId |-> a.campusId,
                      isPrimary |-> a.isPrimary, status |-> a.status]}]

\* tx.teacherCampus.upsert({ where: { teacherId_campusId }, create, update })
UpsertAssignment(w, teacherId, a) ==
    [w EXCEPT !.teacherCampus =
        IF \E r \in @ : r.teacherId = teacherId /\ r.campusId = a.campusId
        THEN { IF r.teacherId = teacherId /\ r.campusId = a.campusId
               THEN [r EXCEPT !.isPrimary = a.isPrimary, !.status = a.status]
               ELSE r : r \in @ }
        ELSE @ \cup {[teacherId |-> teacherId, campusId |-> a.campusId,
                      isPrimary |-> a.isPrimary, status |-> a.status]}]

\* The foreign key TeacherCampus.campusId -> Campus.id
UpsertAccepted(a) == CampusExists(a.campusId)

\* tx.teacherSubject.deleteMany({ where: { teacherId, subjectId: { notIn } } })
DeleteSubjectsNotIn(w, teacherId, subjects) ==
    [w EXCEPT !.teacherSubject =
        {r \in @ : ~(r.teacherId = teacherId /\ r.subjectId \notin subjects)}]

\* tx.teacherSubject.createMany({ data, skipDuplicates: true })
CreateManySubjects(w, teacherId, subjects) ==
    [w EXCEPT !.teacherSubject =
        @ \cup {[teacherId |-> teacherId, subjectId |-> x, status |-> "ACTIVE"] :
                  x \in {y \in subjects :
                           ~\E r \in w.teacherSubject :
                               r.teacherId = teacherId /\ r.subjectId = y}}]

\* tx.teacherClass.deleteMany({ where: { teacherId, classId: { notIn } } })
DeleteClassesNotIn(w, teacherId, classes) ==
    [w EXCEPT !.teacherClass =
        {r \in @ : ~(r.teacherId = teacherId /\ r.classId \notin classes)}]

\* tx.teacherClass.createMany({ data, skipDuplicates: true })
CreateManyClasses(w, teacherId, classes) ==
    [w EXCEPT !.teacherClass =
        @ \cup {[teacherId |-> teacherId, classId |-> x, status |-> "ACTIVE"] :
                  x \in {y \in classes :
                           ~\E r \in w.teacherClass :
                               r.teacherId = teacherId /\ r.classId = y}}]

\* tx.user.update({ where: { id }, data: { status } })
UpdateUserStatus(w, userId, status) ==
    [w EXCEPT !.user = { IF r.id = userId THEN [r EXCEPT !.status = status] ELSE r : r \in @ }]

\* Variant of UpdateManyStatus that leaves the campus assignments alone.
UpdateManyStatusSkipCampus(w, teacherId, table, status) ==
    IF table = "teacherCampus" THEN w
    ELSE [w EXCEPT ![table] =
            { IF r.teacherId = teacherId THEN [r EXCEPT !.status = status] ELSE r : r \in @ }]

\* tx.teacherCampus / teacherSubject / teacherClass
\*   .updateMany({ where: { teacherId }, data: { status } })
UpdateManyStatus(w, teacherId, table, status) ==
    [w EXCEPT ![table] =
        { IF r.teacherId = teacherId THEN [r EXCEPT !.status = status] ELSE r : r \in @ }]

\* One statement of the open transaction has run.
TxStep(t) ==
    /\ tx' = t
    /\ Publish(TxWrite(Db, t.work))
    /\ UNCHANGED <<campus, campusRole, call, result, proc, form>>

\* upsertTeacher, lines 132-153: the code the catch block throws for what the
\* transaction threw.
UpsertErrorCode(thrown) ==
    IF thrown = "ZodError" THEN "BAD_REQUEST"
    ELSE IF thrown = "P2002" THEN "CONFLICT"
    ELSE "INTERNAL_SERVER_ERROR"

\* Variant of StatusErrorCode without the rethrow of a TRPCError (line 251).
StatusErrorCodeNoRethrow(thrown) ==
    IF thrown = "P2025" THEN "NOT_FOUND" ELSE "INTERNAL_SERVER_ERROR"

\* updateTeacherStatus, lines 250-265: a TRPCError is rethrown as it is, the
\* Prisma error P2025 becomes NOT_FOUND, anything else INTERNAL_SERVER_ERROR.
StatusErrorCode(thrown) ==
    IF thrown = "TRPCError NOT_FOUND" THEN "NOT_FOUND"
    ELSE IF thrown = "P2025" THEN "NOT_FOUND"
    ELSE "INTERNAL_SERVER_ERROR"

\* The callback threw: the transaction is rolled back and the catch block
\* decides the error code that reaches the caller.
Rollback(thrown) ==
    /\ tx' = IdleTx
    /\ call' = [op |-> tx.op, thrown |-> thrown]
    /\ result' = [code |-> IF tx.op = "upsertTeacher" THEN UpsertErrorCode(thrown)
                           ELSE StatusErrorCode(thrown),
                  body |-> NoRow, rows |-> {}]
    /\ UNCHANGED <<teacherProfile, teacherCampus, teacherSubject, teacherClass, user,
                   campus, campusRole, proc, form>>

\* Variant of AfterSubjects that enters the class block for an empty list too.
AfterSubjectsAlways(t) == "classesDelete"

\* Where upsertTeacher continues after the campus assignments (lines 92-128).
AfterSubjects(t) == IF t.classes # {} THEN "classesDelete" ELSE "commit"
AfterAssignments(t) == IF t.subjects # {} THEN "subjectsDelete" ELSE AfterSubjects(t)

\* upsertTeacher, lines 28-41: the input is validated and the transaction opens.
upsertTeacherBegin ==
    /\ tx.pc = "idle"
    /\ \E a \in AssignmentLists, s \in SUBSET SubjectIds, k \in SUBSET ClassIds :
          tx' = [IdleTx EXCEPT !.pc = "profile", !.op = "upsertTeacher",
                               !.userId = TSUser, !.assignments = a,
                               !.subjects = s, !.classes = k,
                               !.work = Db, !.before = Db]
    /\ call' = [op |-> "upsertTeacher", thrown |-> "none"]
    /\ result' = NoResult
    /\ UNCHANGED <<teacherProfile, teacherCampus, teacherSubject, teacherClass, user,
                   campus, campusRole, proc, form>>

\* upsertTeacher, lines 43-59
UpsertProfileStep ==
    /\ tx.op = "upsertTeacher" /\ tx.pc = "profile"
    /\ LET w == UpsertProfile(tx.work, tx.userId)
       IN  TxStep([tx EXCEPT !.work = w,
                             !.teacherId = ProfileIdOf(w, tx.userId),
                             !.pc = IF Len(tx.assignments) > 0 THEN "deleteMany"
                                    ELSE AfterAssignments(tx)])

\* upsertTeacher, lines 60-66
UpsertDeleteMany ==
    /\ tx.op = "upsertTeacher" /\ tx.pc = "deleteMany"
    /\ TxStep([tx EXCEPT !.work = DeleteManyNotIn(tx.work, tx.teacherId,
                                                  CampusIdsOf(tx.assignments)),
                         !.todo = tx.assignments,
                         !.pc = "upsert"])

\* upsertTeacher, lines 68-89: one round of the loop; an entry the database
\* rejects (foreign key, Prisma error P2003) makes the callback throw.
UpsertAssignmentStep ==
    /\ tx.op = "upsertTeacher" /\ tx.pc = "upsert"
    /\ IF UpsertAccepted(Head(tx.todo))
       THEN TxStep([tx EXCEPT !.work = UpsertAssignment(tx.work, tx.teacherId, Head(tx.todo)),
                              !.todo = Tail(tx.todo),
                              !.pc = IF Tail(tx.todo) = <<>> THEN AfterAssignments(tx)
                                     ELSE "upsert"])
       ELSE Rollback("P2003")

\* upsertTeacher, lines 94-99
UpsertSubjectsDelete ==
    /\ tx.op = "upsertTeacher" /\ tx.pc = "subjectsDelete"
    /\ TxStep([tx EXCEPT !.work = DeleteSubjectsNotIn(tx.work, tx.teacherId, tx.subjects),
                         !.pc = "subjectsCreate"])

\* upsertTeacher, lines 101-108
UpsertSubjectsCreate ==
    /\ tx.op = "upsertTeacher" /\ tx.pc = "subjectsCreate"
    /\ TxStep([tx EXCEPT !.work = CreateManySubjects(tx.work, tx.teacherId, tx.subjects),
                         !.pc = AfterSubjects(tx)])

\* upsertTeacher, lines 113-118
UpsertClassesDelete ==
    /\ tx.op = "upsertTeacher" /\ tx.pc = "classesDelete"
    /\ TxStep([tx EXCEPT !.work = DeleteClassesNotIn(tx.work, tx.teacherId, tx.classes),
                         !.pc = "classesCreate"])

\* upsertTeacher, lines 120-127
UpsertClassesCreate ==
    /\ tx.op = "upsertTeacher" /\ tx.pc = "classesCreate"
    /\ TxStep([tx EXCEPT !.work = CreateManyClasses(tx.work, tx.teacherId, tx.classes),
                         !.pc = "commit"])

\* updateTeacherStatus, lines 208-210: the transaction opens.
updateTeacherStatusBegin ==
    /\ tx.pc = "idle"
    /\ \E t \in {TSTeacher, "t0"}, s \in Status :
          tx' = [IdleTx EXCEPT !.pc = "find", !.op = "updateTeacherStatus",
                               !.teacherId = t, !.status = s,
                               !.work = Db, !.before = Db]
    /\ call' = [op |-> "updateTeacherStatus", thrown |-> "none"]
    /\ result' = NoResult
    /\ UNCHANGED <<teacherProfile, teacherCampus, teacherSubject, teacherClass, user,
                   campus, campusRole, proc, form>>

\* updateTeacherStatus, lines 212-222 and 251: no profile, the TRPCError
\* NOT_FOUND leaves the callback and is rethrown as it is.
StatusFindProfile ==
    /\ tx.op = "updateTeacherStatus" /\ tx.pc = "find"
    /\ IF \E p \in tx.work.teacherProfile : p.id = tx.teacherId
       THEN TxStep([tx EXCEPT
                      !.userId = (CHOOSE p \in tx.work.teacherProfile :
                                     p.id = tx.teacherId).userId,
                      !.pc = "user"])
       ELSE Rollback("TRPCError NOT_FOUND")

\* updateTeacherStatus, lines 224-228
StatusUpdateUser ==
    /\ tx.op = "updateTeacherStatus" /\ tx.pc = "user"
    /\ TxStep([tx EXCEPT !.work = UpdateUserStatus(tx.work, tx.userId, tx.status),
                         !.pc = "campuses"])

\* updateTeacherStatus, lines 230-234
StatusUpdateCampuses ==
    /\ tx.op = "updateTeacherStatus" /\ tx.pc = "campuses"
    /\ TxStep([tx EXCEPT !.work = UpdateManyStatus(tx.work, tx.teacherId,
                                                   "teacherCampus", tx.status),
                         !.pc = "subjects"])

\* updateTeacherStatus, lines 236-240
StatusUpdateSubjects ==
    /\ tx.op = "updateTeacherStatus" /\ tx.pc = "subjects"
    /\ TxStep([tx EXCEPT !.work = UpdateManyStatus(tx.work, tx.teacherId,
                                                   "teacherSubject", tx.status),
                         !.pc = "classes"])

\* updateTeacherStatus, lines 242-246
StatusUpdateClasses ==
    /\ tx.op = "updateTeacherStatus" /\ tx.pc = "classes"
    /\ TxStep([tx EXCEPT !.work = UpdateManyStatus(tx.work, tx.teacherId,
                                                   "teacherClass", tx.status),
                         !.pc = "commit"])

\* The callback returned: the transaction commits and the caller gets the
\* profile (upsertTeacher line 130, updateTeacherStatus line 248).
TxCommit ==
    /\ tx.pc = "commit"
    /\ Publish(tx.work)
    /\ tx' = IdleTx
    /\ call' = [op |-> tx.op, thrown |-> "none"]
    /\ result' = [code |-> "OK", body |-> NoRow, rows |-> {}]
    /\ UNCHANGED <<campus, campusRole, proc, form>>

\* A statement or the commit fails in the storage layer (connection lost,
\* timeout): the callback throws and the transaction is rolled back.
TxFails ==
    /\ tx.pc # "idle"
    /\ Rollback("storage failure")

\* What getTeacherProfile includes for a teacher: the user's status and the
\* campus, subject and class rows.
ProfileView(d, teacherId) ==
    {[kind |-> "user", id |-> u.id, isPrimary |-> FALSE, status |-> u.status] :
        u \in {x \in d.user : \E p \in d.teacherProfile :
                                 p.id = teacherId /\ p.userId = x.id}}
    \cup {[kind |-> "campus", id |-> r.campusId, isPrimary |-> r.isPrimary,
           status |-> r.status] : r \in {x \in d.teacherCampus : x.teacherId = teacherId}}
    \cup {[kind |-> "subject", id |-> r.subjectId, isPrimary |-> FALSE,
           status |-> r.status] : r \in {x \in d.teacherSubject : x.teacherId = teacherId}}
    \cup {[kind |-> "class", id |-> r.classId, isPrimary |-> FALSE,
           status |-> r.status] : r \in {x \in d.teacherClass : x.teacherId = teacherId}}

\* TeacherService.getTeacherProfile, lines 159-203: a read on this.db, served
\* at any moment, also while a transaction is open.
getTeacherProfile ==
    /\ call' = [op |-> "getTeacherProfile", thrown |-> "none"]
    /\ result' = IF \E p \in teacherProfile : p.id = TSTeacher
                 THEN [code |-> "OK", body |-> NoRow, rows |-> ProfileView(Db, TSTeacher)]
                 ELSE [code |-> "NOT_FOUND", body |-> NoRow, rows |-> {}]
    /\ UNCHANGED <<teacherProfile, teacherCampus, teacherSubject, teacherClass, user,
                   campus, campusRole, proc, tx, form>>

(***************************************************************************)
(* The teacher form (part_002): the update handler that brings a teacher's *)
(* campus assignments to the submitted selection, one service call a step. *)
(* The calls reach the part_004 handlers through the router procedures.    *)
(***************************************************************************)

\* The teacher the form edits.
FormTeacher == "t1"

\* primaryCampusId of a form with no primary campus selected.
NoCampus == "none"

\* The form before its queries have answered: teacherCampuses defaults to [].
\* matched and disturbed are history fields: whether the handler started from
\* a list showing every stored assignment, and whether another client changed
\* the table while it ran.
ClosedForm ==
    [pc |-> "closed", userId |-> "none", loaded |-> {}, campusIds |-> {},
     primaryCampusId |-> NoCampus, todoRemove |-> {}, todoAssign |-> {},
     matched |-> FALSE, disturbed |-> FALSE]

\* The positions of the form inside the update handler.
FormRunning == {"removals", "assignments", "setPrimary"}

\* api.teacher.getTeacherCampuses: the list the form holds after a (re)fetch.
\* The procedure passes no includeInactive, so the service's default applies.
TeacherCampusesQuery(tc, userId) ==
    CampusesForTeacherOutcome(tc, userId, FormTeacher, FALSE).rows

\* The loaded list shows every assignment the teacher has in the table.
LoadedMatches(loaded, tc) ==
    loaded = {CampusWithAssignment(r) : r \in {x \in tc : x.teacherId = FormTeacher}}

\* const currentCampusIds = teacherCampuses?.map(tc => tc.campusId) || []
CurrentCampusIds(loaded) == {r.campusId : r \in loaded}

\* Step 1: the loaded campuses that are not among the submitted ones.
Removals(loaded, campusIds) == CurrentCampusIds(loaded) \ campusIds

\* Step 2: the submitted campuses that are not among the loaded ones.
Additions(loaded, campusIds) == campusIds \ CurrentCampusIds(loaded)

\* teacherCampuses?.find(tc => tc.isPrimary)?.campusId
LoadedPrimary(loaded) ==
    IF \E r \in loaded : r.isPrimary
    THEN (CHOOSE r \in loaded : r.isPrimary).campusId
    ELSE NoCampus

\* Variant of NeedsSetPrimary that sets the primary only to replace a loaded one.
NeedsSetPrimaryOnlyReplace(f) ==
    /\ f.primaryCampusId # NoCampus
    /\ f.primaryCampusId \in f.campusIds
    /\ LoadedPrimary(f.loaded) \notin {NoCampus, f.primaryCampusId}

\* Step 3: the primary campus is set when it is one of the submitted campuses
\* and is not the loaded primary.
NeedsSetPrimary(f) ==
    /\ f.primaryCampusId # NoCampus
    /\ f.primaryCampusId \in f.campusIds
    /\ LoadedPrimary(f.loaded) # f.primaryCampusId

\* Where the handler stands once the loops have consumed what they have.
FormPc(f) ==
    IF f.todoRemove # {} THEN "removals"
    ELSE IF f.todoAssign # {} THEN "assignments"
    ELSE IF f.pc # "setPrimary" /\ NeedsSetPrimary(f) THEN "setPrimary"
    ELSE "done"

\* The form after a step on the table tc: a handler that reaches its end
\* refetches the teacher's campuses before it reports success.
FormAfter(f, tc) ==
    LET g == [f EXCEPT !.pc = FormPc(f)]
    IN  IF g.pc = "done" THEN [g EXCEPT !.loaded = TeacherCampusesQuery(tc, f.userId)]
        ELSE g

\* One awaited mutation of the handler: the table and the response as the
\* service leaves them; a rejected mutation throws into the catch block.
FormCall(request, o, f) ==
    /\ teacherCampus' = o.table
    /\ call' = request
    /\ result' = [code |-> o.code, body |-> o.body, rows |-> o.rows]
    /\ form' = IF o.code = "OK" THEN FormAfter(f, o.table)
               ELSE [form EXCEPT !.pc = "failed", !.todoRemove = {}, !.todoAssign = {}]
    /\ UNCHANGED <<teacherProfile, campus, campusRole, proc, teacherVars>>

\* The getTeacherCampuses query answers for the signed-in user.
FormLoad ==
    /\ form.pc \notin FormRunning
    /\ \E u \in UserIds :
          form' = [ClosedForm EXCEPT !.pc = "loaded", !.userId = u,
                                     !.loaded = TeacherCampusesQuery(teacherCampus, u)]
    /\ UNCHANGED <<teacherProfile, campus, campusRole, teacherCampus, call, result,
                   proc, teacherVars>>

\* updateTeacher.onSuccess begins: the selection is read from the form.
FormSubmit ==
    /\ form.pc \in {"loaded", "done", "failed"}
    /\ \E ids \in SUBSET ExistingCampuses, p \in ExistingCampuses \cup {NoCampus} :
          form' = FormAfter([form EXCEPT !.pc = "removals",
                                         !.campusIds = ids,
                                         !.primaryCampusId = p,
                                         !.todoRemove = Removals(form.loaded, ids),
                                         !.todoAssign = Additions(form.loaded, ids),
                                         !.matched = LoadedMatches(form.loaded, teacherCampus),
                                         !.disturbed = FALSE],
                            teacherCampus)
    /\ call' = NoCall
    /\ result' = NoResult
    /\ UNCHANGED <<teacherProfile, campus, campusRole, teacherCampus, proc, teacherVars>>

\* Step 1: removeTeacherFromCampus for a loaded campus that was deselected.
FormRemoveStep ==
    /\ form.pc = "removals"
    /\ \E c \in form.todoRemove :
          FormCall([op |-> "remove", userId |-> form.userId, campusId |-> c,
                    teacherId |-> FormTeacher],
                   RemoveOutcome(teacherCampus, form.userId, c, FormTeacher),
                   [form EXCEPT !.todoRemove = @ \ {c}])

\* Step 2: assignTeacherToCampus for a selected campus that was not loaded.
FormAssignStep ==
    /\ form.pc = "assignments"
    /\ \E c \in form.todoAssign :
          FormCall([op |-> "assign", userId |-> form.userId, campusId |-> c,
                    teacherId |-> FormTeacher, isPrimary |-> (c = form.primaryCampusId)],
                   AssignOutcome(teacherCampus, form.userId, c, FormTeacher,
                                 c = form.primaryCampusId),
                   [form EXCEPT !.todoAssign = @ \ {c}])

\* Step 3: setPrimaryCampus for the selected primary campus.
FormSetPrimaryStep ==
    /\ form.pc = "setPrimary"
    /\ FormCall([op |-> "setPrimary", userId |-> form.userId,
                 campusId |-> form.primaryCampusId, teacherId |-> FormTeacher],
                SetPrimaryOutcome(teacherCampus, form.userId, FormTeacher,
                                  form.primaryCampusId),
                form)

\* Another client's mutation on the teacher's assignments is served; its
\* response goes to that client.  The form is disturbed when this changes
\* the table while the handler runs.
FormOtherClient ==
    /\ \E c \in ExistingCampuses, p \in BOOLEAN, s \in Status :
          \E o \in {AssignOutcome(teacherCampus, "admin", c, FormTeacher, p),
                    RemoveOutcome(teacherCampus, "admin", c, FormTeacher),
                    UpdateStatusOutcome(teacherCampus, "admin", c, FormTeacher, s),
                    SetPrimaryOutcome(teacherCampus, "admin", FormTeacher, c)} :
              /\ o.table # teacherCampus
              /\ teacherCampus' = o.table
    /\ form' = [form EXCEPT !.disturbed = @ \/ form.pc \in FormRunning]
    /\ UNCHANGED <<teacherProfile, campus, campusRole, call, result, proc, teacherVars>>

(***************************************************************************)
(* Initial state: the profiles, campuses and roles exist, no assignment.   *)
(***************************************************************************)
Init ==
    /\ teacherProfile = {[id |-> "t1", userId |-> "u1"], [id |-> "t2", userId |-> "u2"]}
    /\ campus = ExistingCampuses
    /\ campusRole =
         {[userId |-> "u2", campusId |-> "c1",
           permissions |-> {MANAGE_CAMPUS_TEACHERS, VIEW_CAMPUS_CLASSES}]}
    /\ teacherCampus = {}
    /\ call = NoCall
    /\ result = NoResult
    /\ proc = [i \in Procs |-> IdleProc]
    /\ user = {[id |-> u, status |-> "ACTIVE"] : u \in {"u1", "u2", TSUser}}
    /\ teacherSubject = {}
    /\ teacherClass = {}
    /\ tx = IdleTx
    /\ form = ClosedForm

Next ==
    \/ assignTeacherToCampus
    \/ removeTeacherFromCampus
    \/ updateTeacherCampusStatus
    \/ setPrimaryCampus
    \/ getTeachersForCampus
    \/ getCampusesForTeacher

Spec == Init /\ [][Next]_vars

NextV1 ==
    \/ assignTeacherToCampusV1
    \/ removeTeacherFromCampusV1
    \/ updateTeacherCampusStatusV1
    \/ setPrimaryCampusV1
    \/ getTeachersForCampusV1
    \/ getCampusesForTeacherV1

SpecV1 == Init /\ [][NextV1]_vars

NextConc ==
    \E i \in Procs :
        \/ BeginAssign(i)
        \/ AssignUnsetPrimary(i)
        \/ AssignCreate(i)
        \/ AssignCreateFails(i)
        \/ BeginSetPrimary(i)
        \/ SetPrimaryUnsetPrimary(i)
        \/ SetPrimaryUpdate(i)
        \/ BeginRemove(i)
        \/ RemoveDelete(i)
        \/ BeginUpdateStatus(i)
        \/ UpdateStatusUpdate(i)
        \/ ListCampusesForTeacher(i)
        \/ Return(i)

SpecConc == Init /\ [][NextConc]_vars

NextTS ==
    \/ upsertTeacherBegin
    \/ UpsertProfileStep
    \/ UpsertDeleteMany
    \/ UpsertAssignmentStep
    \/ UpsertSubjectsDelete
    \/ UpsertSubjectsCreate
    \/ UpsertClassesDelete
    \/ UpsertClassesCreate
    \/ updateTeacherStatusBegin
    \/ StatusFindProfile
    \/ StatusUpdateUser
    \/ StatusUpdateCampuses
    \/ StatusUpdateSubjects
    \/ StatusUpdateClasses
    \/ TxCommit
    \/ TxFails
    \/ getTeacherProfile

SpecTS == Init /\ [][NextTS]_vars

NextForm ==
    \/ FormLoad
    \/ FormSubmit
    \/ FormRemoveStep
    \/ FormAssignStep
    \/ FormSetPrimaryStep
    \/ FormOtherClient

SpecForm == Init /\ [][NextForm]_vars

(***************************************************************************)
(* Properties.                                                             *)
(***************************************************************************)
Primaries(tc, teacherId) == {r \in tc : r.teacherId = teacherId /\ r.isPrimary}
ActivePrimaries(tc, teacherId) ==
    {r \in Primaries(tc, teacherId) : r.status = "ACTIVE"}

\* C1: after any sequence of assign, remove, setPrimary and updateStatus calls
\* run one after another from an empty table, every teacher has at most one
\* assignment with status = ACTIVE and isPrimary = true.
C1_AtMostOneActivePrimary ==
    \A t \in ExistingTeachers : Cardinality(ActivePrimaries(teacherCampus, t)) <= 1

\* The calls whose storage steps may have interleaved: every request slot
\* holds a completed, successful assign with isPrimary = true, for pairwise
\* distinct campuses.
AllAssignedPrimary ==
    /\ \A i \in Procs : /\ proc[i].op = "assign" /\ proc[i].pc = "done"
                        /\ proc[i].code = "OK" /\ proc[i].isPrimary
    /\ \A i, j \in Procs : i # j => proc[i].campusId # proc[j].campusId

\* C2: when N >= 2 assign calls with isPrimary = true for the same teacher
\* and N distinct campuses run concurrently and all complete, exactly one of
\* the teacher's assignments is primary afterwards.
C2_ExactlyOnePrimaryAfterAssigns ==
    AllAssignedPrimary => Cardinality(Primaries(teacherCampus, ConcTeacher)) = 1

\* C3: a listForPerson that reads while a setPrimary call runs for a teacher
\* who already had a primary campus sees exactly one primary: never two, and
\* never the state where the old primary is cleared and the new one not set.
C3_ReaderSeesOnePrimary ==
    \A i \in Procs :
        (proc[i].op = "list" /\ proc[i].pc = "done" /\ proc[i].hadPrimary)
            => Cardinality({r \in proc[i].body : r.isPrimary}) = 1

\* Two setPrimary calls on different campuses, or a setPrimary together with
\* an assign with isPrimary = true, occupy the request slots.
SetPrimaryRace(pr) ==
    \E i, j \in Procs :
        /\ i # j
        /\ pr[i].op = "setPrimary"
        /\ \/ pr[j].op = "setPrimary"
           \/ pr[j].op = "assign" /\ pr[j].isPrimary
        /\ pr[i].campusId # pr[j].campusId
        /\ \A k \in Procs \ {i, j} : pr[k].pc = "idle"

\* C4: no storage step of two concurrent setPrimary calls (or of a setPrimary
\* and an assign with isPrimary = true) for the same teacher takes the teacher
\* from at most one ACTIVE primary to two.
C4_RaceKeepsSinglePrimary ==
    [][ ( /\ SetPrimaryRace(proc) /\ SetPrimaryRace(proc')
          /\ Cardinality(ActivePrimaries(teacherCampus, ConcTeacher)) <= 1 )
        => Cardinality(ActivePrimaries(teacherCampus', ConcTeacher)) <= 1 ]_vars

\* C5: when an assign with isPrimary = true fails at its insert, after the
\* primaries were cleared, the caller gets an error and the teacher's
\* assignments are exactly as before the call.  (The step considered is the
\* failing insert of a call whose own updateMany is the only change made to
\* the teacher's rows since the call began.)
C5_FailedAssignRollsBack ==
    [][ \A i \in Procs :
          ( /\ proc[i].op = "assign" /\ proc[i].isPrimary
            /\ proc[i].pc = "create" /\ proc'[i].pc = "done"
            /\ proc'[i].code # "OK"
            /\ RowsOf(teacherCampus, ConcTeacher) = UnsetPrimary(proc[i].before, ConcTeacher)
            /\ \A k \in Procs \ {i} : proc[k].pc = "idle" )
          => ( /\ proc'[i].code = "INTERNAL_SERVER_ERROR"
               /\ RowsOf(teacherCampus', ConcTeacher) = proc[i].before ) ]_vars
\* C6: a successful assign with isPrimary = true leaves the new assignment
\* ACTIVE and primary and no other ACTIVE assignment of the teacher primary
\* (assign(t1, c1, true) then assign(t1, c2, true): c1 non-primary, c2 primary).
C6_AssignPrimaryClearsOthers ==
    (call.op = "assign" /\ call.isPrimary /\ result.code = "OK")
        => /\ NewAssignment(call.teacherId, call.campusId, TRUE) \in teacherCampus
           /\ \A r \in RowsOf(teacherCampus, call.teacherId) :
                  (r.campusId # call.campusId /\ r.status = "ACTIVE") => ~r.isPrimary

\* C7: after a successful setPrimary(P, C) the (P, C) assignment is primary
\* and it is the only primary assignment of P.
C7_SetPrimaryMakesTargetOnlyPrimary ==
    (call.op = "setPrimary" /\ result.code = "OK")
        => LET target == FindUnique(teacherCampus, call.teacherId, call.campusId)
           IN  /\ target # NoRow
               /\ target.isPrimary
               /\ Primaries(teacherCampus, call.teacherId) = {target}
               /\ result.body = target

\* A setPrimary succeeded for a teacher who also has a non-ACTIVE assignment
\* to another campus.
C7_Witness ==
    /\ call.op = "setPrimary" /\ result.code = "OK"
    /\ \E r \in RowsOf(teacherCampus, call.teacherId) :
           r.campusId # call.campusId /\ r.status = "INACTIVE"

\* C8: an assign for a (teacher, campus) pair that already has an assignment
\* fails with CONFLICT and changes no assignment.
C8_DuplicateAssignConflicts ==
    [][ ( /\ call'.op = "assign"
          /\ HasPermission(call'.userId, call'.campusId, MANAGE_CAMPUS_TEACHERS)
          /\ FindUnique(teacherCampus, call'.teacherId, call'.campusId) # NoRow )
        => (result'.code = "CONFLICT" /\ teacherCampus' = teacherCampus) ]_vars

\* C9: assign, remove and updateStatus by an actor without
\* MANAGE_CAMPUS_TEACHERS on the target campus fail with FORBIDDEN and write
\* nothing.
C9_ForbiddenBeforeAnyWrite ==
    [][ ( /\ call'.op \in {"assign", "remove", "updateStatus"}
          /\ ~HasPermission(call'.userId, call'.campusId, MANAGE_CAMPUS_TEACHERS) )
        => (result'.code = "FORBIDDEN" /\ teacherCampus' = teacherCampus) ]_vars

\* An actor without the capability was refused the removal of an existing
\* assignment, which is still there.
C9_Witness ==
    /\ call.op = "remove" /\ result.code = "FORBIDDEN"
    /\ FindUnique(teacherCampus, call.teacherId, call.campusId) # NoRow

\* The actor is the teacher's own user, or manages teachers on the campus.
SelfOrManager(userId, teacherId, campusId) ==
    \/ \E p \in teacherProfile : p.id = teacherId /\ p.userId = userId
    \/ HasPermission(userId, campusId, MANAGE_CAMPUS_TEACHERS)

\* C10: a setPrimary by an actor who is neither the teacher's own user nor a
\* holder of MANAGE_CAMPUS_TEACHERS on the campus fails with FORBIDDEN and
\* changes no isPrimary flag.
C10_SetPrimaryRequiresSelfOrManager ==
    [][ ( /\ call'.op = "setPrimary"
          /\ FindUnique(teacherCampus, call'.teacherId, call'.campusId) # NoRow
          /\ ~SelfOrManager(call'.userId, call'.teacherId, call'.campusId) )
        => (result'.code = "FORBIDDEN" /\ teacherCampus' = teacherCampus) ]_vars
\* C11: an assign naming a teacher or a campus that does not exist fails with
\* NOT_FOUND and creates no row.
C11_AssignMissingIsNotFound ==
    [][ ( /\ call'.op = "assign"
          /\ HasPermission(call'.userId, call'.campusId, MANAGE_CAMPUS_TEACHERS)
          /\ (~TeacherExists(call'.teacherId) \/ ~CampusExists(call'.campusId)) )
        => (result'.code = "NOT_FOUND" /\ teacherCampus' = teacherCampus) ]_vars

\* C12: setPrimary succeeds only on an ACTIVE assignment: it never makes an
\* INACTIVE assignment primary.
C12_SetPrimaryOnlyOnActive ==
    (call.op = "setPrimary" /\ result.code = "OK")
        => FindUnique(teacherCampus, call.teacherId, call.campusId).status = "ACTIVE"

\* C13: remove, updateStatus and setPrimary on a (teacher, campus) pair with no
\* assignment fail with NOT_FOUND and leave every row as it was (for remove and
\* updateStatus the actor holds the manage capability, which is tested first;
\* setPrimary tests nothing before the lookup).  In particular setPrimary does
\* not unset another primary before failing.
C13_MissingAssignmentIsNotFound ==
    [][ ( /\ call'.op \in {"remove", "updateStatus", "setPrimary"}
          /\ FindUnique(teacherCampus, call'.teacherId, call'.campusId) = NoRow
          /\ (call'.op \in {"remove", "updateStatus"}
                 => HasPermission(call'.userId, call'.campusId, MANAGE_CAMPUS_TEACHERS)) )
        => (result'.code = "NOT_FOUND" /\ teacherCampus' = teacherCampus) ]_vars

\* A setPrimary failed with NOT_FOUND while the teacher holds a primary
\* assignment on another campus.
C13_Witness ==
    /\ call.op = "setPrimary"
    /\ result.code = "NOT_FOUND"
    /\ HasPrimary(teacherCampus, call.teacherId)

\* C14: a successful remove deletes exactly the (teacher, campus) assignment
\* and changes no other row; when the removed assignment was the primary one,
\* the teacher's campus list afterwards shows no primary (nothing is promoted).
C14_RemoveDeletesExactlyOne ==
    [][ (call'.op = "remove" /\ result'.code = "OK")
        => LET removed == FindUnique(teacherCampus, call'.teacherId, call'.campusId)
               listed  == CampusesForTeacherOutcome(teacherCampus', call'.userId,
                                                    call'.teacherId, TRUE).rows
           IN  /\ removed # NoRow
               /\ teacherCampus' = teacherCampus \ {removed}
               /\ removed.isPrimary => ~\E e \in listed : e.isPrimary ]_vars

\* A remove succeeded and left the teacher with assignments, none primary.
C14_Witness ==
    /\ call.op = "remove"
    /\ result.code = "OK"
    /\ RowsOf(teacherCampus, call.teacherId) # {}
    /\ ~HasPrimary(teacherCampus, call.teacherId)

\* C15: a successful updateStatus changes only the status of the (teacher,
\* campus) assignment: its isPrimary flag stays as it was, also for a primary
\* assignment set to a status other than ACTIVE, and every other row is
\* unchanged.
C15_UpdateStatusChangesOnlyStatus ==
    [][ (call'.op = "updateStatus" /\ result'.code = "OK")
        => LET old == FindUnique(teacherCampus, call'.teacherId, call'.campusId)
           IN  /\ old # NoRow
               /\ teacherCampus' = (teacherCampus \ {old})
                                       \cup {[old EXCEPT !.status = call'.status]}
               /\ result'.body.isPrimary = old.isPrimary ]_vars

\* An updateStatus to INACTIVE succeeded on an assignment that is primary.
C15_Witness ==
    /\ call.op = "updateStatus"
    /\ result.code = "OK"
    /\ call.status = "INACTIVE"
    /\ FindUnique(teacherCampus, call.teacherId, call.campusId).isPrimary

C17_AssignPrimaryThenList ==
    [][ ( /\ call.op = "assign" /\ call.isPrimary /\ result.code = "OK"
          /\ call'.op = "listForTeacher" /\ call'.teacherId = call.teacherId )
        => /\ result'.code = "OK"
           /\ Cardinality({e \in result'.rows : e.campusId = call.campusId}) = 1
           /\ \A e \in result'.rows : e.campusId = call.campusId => e.isPrimary ]_vars

\* A teacher's campuses were listed and the listing holds a primary record
\* next to a non-primary one.
C17_Witness ==
    /\ call.op = "listForTeacher"
    /\ result.code = "OK"
    /\ \E e \in result.rows : e.isPrimary
    /\ \E e \in result.rows : ~e.isPrimary

\* C18: at every moment there is at most one assignment row for each
\* (teacherId, campusId) pair, whatever the interleaving of the requests,
\* two concurrent assigns of the same pair included.
C18_OneRowPerPair ==
    \A t \in TeacherIds, c \in CampusIds :
        Cardinality({r \in teacherCampus : r.teacherId = t /\ r.campusId = c}) <= 1

\* Two assigns of the same pair ran concurrently: both passed the duplicate
\* lookup, one has inserted its row and the other is about to insert.
C18_Witness ==
    \E i, j \in Procs :
        /\ i # j
        /\ proc[i].op = "assign" /\ proc[j].op = "assign"
        /\ proc[i].campusId = proc[j].campusId
        /\ proc[i].pc = "done" /\ proc[i].code = "OK"
        /\ proc[j].pc = "create"
        /\ FindUnique(teacherCampus, ConcTeacher, proc[j].campusId) # NoRow

\* The teachers a campus listing has to show: those with an assignment to the
\* campus, restricted to ACTIVE assignments unless includeInactive.
ExpectedTeachers(campusId, includeInactive) ==
    {t \in TeacherIds :
        \E r \in teacherCampus :
            /\ r.teacherId = t /\ r.campusId = campusId
            /\ (r.status = "ACTIVE" \/ includeInactive)}

MayListCampusesOf(userId, teacherId) ==
    \/ ProfileUserId(teacherId) = userId
    \/ \E r \in teacherCampus :
          r.teacherId = teacherId /\ HasPermission(userId, r.campusId, VIEW_CAMPUS_CLASSES)

\* C20: the listing of an existing, assigned teacher's campuses is allowed
\* exactly when the actor is that teacher or holds the read capability on one
\* of the teacher's campuses; any other actor is refused with FORBIDDEN and
\* receives none of the teacher's assignments.
C20_ListForTeacherGuarded ==
    ( /\ call.op = "listForTeacher"
      /\ TeacherExists(call.teacherId)
      /\ RowsOf(teacherCampus, call.teacherId) # {} )
        => ( /\ MayListCampusesOf(call.userId, call.teacherId) => result.code = "OK"
             /\ ~MayListCampusesOf(call.userId, call.teacherId)
                   => (result.code = "FORBIDDEN" /\ result.rows = {}) )

\* C27: in the part_004 service, calls served one after another from an empty
\* table leave every teacher with at most one assignment flagged primary,
\* whatever the status of the flagged row; hence never two ACTIVE primaries,
\* also after an assignment is set back to ACTIVE.
C27_AtMostOnePrimaryAnyStatus ==
    \A t \in TeacherIds :
        /\ Cardinality(Primaries(teacherCampus, t)) <= 1
        /\ Cardinality(ActivePrimaries(teacherCampus, t)) <= 1

\* An updateStatus set an assignment that is not primary to ACTIVE while the
\* teacher holds an ACTIVE primary on another campus.
C27_Witness ==
    /\ call.op = "updateStatus"
    /\ result.code = "OK"
    /\ call.status = "ACTIVE"
    /\ ~result.body.isPrimary
    /\ \E r \in ActivePrimaries(teacherCampus, call.teacherId) :
           r.campusId # call.campusId

AssignedPairs(tc) == {<<r.teacherId, r.campusId>> : r \in tc}

\* C21: assignment rows are created only by assign and destroyed only by
\* remove; in particular the teacher-level operations (upsertTeacher,
\* updateTeacherStatus) never create or delete an assignment row.
C21_TeacherOpsKeepAssignmentRows ==
    [][ (tx.op \in {"upsertTeacher", "updateTeacherStatus"})
        => AssignedPairs(teacherCampus') = AssignedPairs(teacherCampus) ]_vars

\* C22: upsertTeacher applies the profile upsert and the campus, subject and
\* class changes as one transaction: while it runs, and after it has failed
\* at any statement, the tables are as they were when it began (no partial
\* write is visible), and a call that fails reports an error code.
C22_UpsertAllOrNothing ==
    [][ tx.op = "upsertTeacher"
        => /\ ~(tx'.pc = "idle" /\ result'.code = "OK") => Db' = tx.before
           /\ tx'.pc = "idle"
                => result'.code \in {"OK", "BAD_REQUEST", "CONFLICT",
                                     "INTERNAL_SERVER_ERROR"} ]_vars

\* An upsertTeacher has already deleted assignment rows inside its
\* transaction, and the entry it upserts next names a campus that does not
\* exist, so the statement will be rejected.
C22_Witness ==
    /\ tx.op = "upsertTeacher"
    /\ tx.pc = "upsert"
    /\ tx.work.teacherCampus # tx.before.teacherCampus
    /\ ~UpsertAccepted(Head(tx.todo))

\* The transaction is committing successfully in this step.
Commits(op) == tx.op = op /\ tx.pc = "commit" /\ tx'.pc = "idle" /\ result'.code = "OK"

\* C23: after a successful upsertTeacher with a non-empty assignments list the
\* teacher's campus assignments are exactly the campuses the list names, each
\* with an isPrimary and status the list gives for it: rows of other campuses
\* are deleted, listed ones are created or updated.
C23_UpsertReplacesAssignments ==
    [][ (Commits("upsertTeacher") /\ Len(tx.assignments) > 0)
        => LET rows == RowsOf(teacherCampus', tx.teacherId)
           IN  /\ {r.campusId : r \in rows} = CampusIdsOf(tx.assignments)
               /\ \A r \in rows :
                     \E i \in 1 .. Len(tx.assignments) :
                         /\ tx.assignments[i].campusId = r.campusId
                         /\ tx.assignments[i].isPrimary = r.isPrimary
                         /\ tx.assignments[i].status = r.status
               /\ \A c \in CampusIdsOf(tx.assignments) :
                     Cardinality({r \in rows : r.campusId = c}) = 1 ]_vars

\* An upsertTeacher is about to commit a list that drops one of the teacher's
\* campuses and changes the flags of another.
C23_Witness ==
    /\ tx.op = "upsertTeacher" /\ tx.pc = "commit"
    /\ \E r \in RowsOf(tx.before.teacherCampus, tx.teacherId) :
           r.campusId \notin CampusIdsOf(tx.assignments)
    /\ \E r \in RowsOf(tx.before.teacherCampus, tx.teacherId) :
           /\ r.campusId \in CampusIdsOf(tx.assignments)
           /\ r \notin tx.work.teacherCampus

\* Every row the teacher has in the table carries the status.
AllCarry(rows, teacherId, status) ==
    \A r \in rows : r.teacherId = teacherId => r.status = status

\* C24: after a successful updateTeacherStatus(teacherId, s) the teacher's user
\* record and every campus, subject and class assignment of the teacher have
\* status s; the change is one transaction: until it commits the tables are as
\* they were when it began, and a getTeacherProfile served meanwhile sees the
\* statuses of before.
C24_StatusCascadesAtomically ==
    [][ tx.op = "updateTeacherStatus"
        => /\ Commits("updateTeacherStatus")
                => /\ \A u \in user' : u.id = tx.userId => u.status = tx.status
                   /\ AllCarry(teacherCampus', tx.teacherId, tx.status)
                   /\ AllCarry(teacherSubject', tx.teacherId, tx.status)
                   /\ AllCarry(teacherClass', tx.teacherId, tx.status)
           /\ ~Commits("updateTeacherStatus") => Db' = tx.before
           /\ (call'.op = "getTeacherProfile" /\ result'.code = "OK")
                => result'.rows = ProfileView(tx.before, TSTeacher) ]_vars

\* An updateTeacherStatus has written the new status to the user and the
\* campus assignments inside its transaction but not yet to the subject rows,
\* which still differ, and a getTeacherProfile has just been served.
C24_Witness ==
    /\ tx.op = "updateTeacherStatus" /\ tx.pc = "subjects"
    /\ \E r \in tx.before.teacherCampus :
           r.teacherId = tx.teacherId /\ r.status # tx.status
    /\ \E r \in tx.work.teacherSubject :
           r.teacherId = tx.teacherId /\ r.status # tx.status
    /\ call.op = "getTeacherProfile" /\ result.code = "OK"

\* C25: updateTeacherStatus for a teacherId with no teacher profile goes no
\* further than the lookup, changes no user status and no assignment status,
\* and the NOT_FOUND it throws reaches the caller as NOT_FOUND, not as
\* INTERNAL_SERVER_ERROR.
C25_StatusOfUnknownTeacherNotFound ==
    [][ ( /\ tx.op = "updateTeacherStatus" /\ tx.pc = "find"
          /\ ~\E p \in teacherProfile : p.id = tx.teacherId
          /\ tx' # tx )
        => /\ tx'.pc = "idle"
           /\ Db' = Db
           /\ call'.thrown # "storage failure" => result'.code = "NOT_FOUND" ]_vars

\* An updateTeacherStatus was answered NOT_FOUND while assignments with
\* statuses to change exist.
C25_Witness ==
    /\ call.op = "updateTeacherStatus"
    /\ result.code = "NOT_FOUND"
    /\ teacherCampus # {}
    /\ teacherSubject # {}

\* The entries of the list that ask for the primary flag.
PrimaryEntries(assignments) ==
    {i \in 1 .. Len(assignments) : assignments[i].isPrimary}

\* C28: an upsertTeacher that commits a non-empty assignments list with at most
\* one isPrimary entry leaves the teacher with at most one primary campus,
\* whatever flags were stored before.
C28_UpsertLeavesAtMostOnePrimary ==
    [][ ( /\ Commits("upsertTeacher")
          /\ Len(tx.assignments) > 0
          /\ Cardinality(PrimaryEntries(tx.assignments)) <= 1 )
        => Cardinality(Primaries(teacherCampus', tx.teacherId)) <= 1 ]_vars

\* An upsertTeacher is about to commit a list with one isPrimary entry for a
\* teacher who had two primary campuses, both still listed.
C28_Witness ==
    /\ tx.op = "upsertTeacher" /\ tx.pc = "commit"
    /\ Len(tx.assignments) = 2
    /\ Cardinality(PrimaryEntries(tx.assignments)) = 1
    /\ Cardinality(Primaries(tx.before.teacherCampus, tx.teacherId)) = 2
    /\ Cardinality(Primaries(tx.work.teacherCampus, tx.teacherId)) = 1

\* C29: an upsertTeacher that commits with an empty assignments list leaves the
\* campus assignments as they were, with an empty subjects list the subject
\* rows, with an empty classes list the class rows; and no committed
\* upsertTeacher takes the teacher's last campus, subject or class away.
C29_EmptyListsChangeNothing ==
    [][ Commits("upsertTeacher")
        => /\ Len(tx.assignments) = 0 => teacherCampus' = tx.before.teacherCampus
           /\ tx.subjects = {} => teacherSubject' = tx.before.teacherSubject
           /\ tx.classes = {} => teacherClass' = tx.before.teacherClass
           /\ RowsOf(tx.before.teacherCampus, tx.teacherId) # {}
                 => RowsOf(teacherCampus', tx.teacherId) # {}
           /\ RowsOf(tx.before.teacherSubject, tx.teacherId) # {}
                 => RowsOf(teacherSubject', tx.teacherId) # {}
           /\ RowsOf(tx.before.teacherClass, tx.teacherId) # {}
                 => RowsOf(teacherClass', tx.teacherId) # {} ]_vars

\* An upsertTeacher with three empty lists is about to commit for a teacher who
\* has campus, subject and class rows.
C29_Witness ==
    /\ tx.op = "upsertTeacher" /\ tx.pc = "commit"
    /\ Len(tx.assignments) = 0 /\ tx.subjects = {} /\ tx.classes = {}
    /\ RowsOf(tx.before.teacherCampus, tx.teacherId) # {}
    /\ RowsOf(tx.before.teacherSubject, tx.teacherId) # {}
    /\ RowsOf(tx.before.teacherClass, tx.teacherId) # {}

====
